---- MODULE Spec2Model ----
(***************************************************************************)
(* TASKFORCE multi-agent pipeline (src/bot.py).                            *)
(*                                                                         *)
(* The orchestrator runs run_fetch_pipeline (intake: Scout, Evaluator)     *)
(* and then run_execution_pipeline (fulfillment: Planner, Executor,        *)
(* Critic, Improver).  The Gemini backend, the Firebase record store, the  *)
(* RSS feeds and the mail server are the environment: every call to them   *)
(* is a step whose outcome is chosen nondeterministically.                 *)
(*                                                                         *)
(* JSON objects (Python dicts) are functions from key strings to values;   *)
(* a missing key is a key outside the DOMAIN, read with Get as dict.get.   *)
(***************************************************************************)
EXTENDS Integers, Sequences, FiniteSets, TLC

(***************************************************************************)
(* Configuration (src/bot.py 32-35) and literals of the code               *)
(***************************************************************************)
MIN_CONFIDENCE == 70

MIN_QUALITY == 75

MAX_RETRIES == 3

\* len(output.strip()) < 150 in agent_executor and agent_improver
MIN_OUTPUT_LEN == 150

\* the quality_score agent_critic substitutes when the review call fails
CRITIC_DEFAULT_SCORE == 75

\* len(FEEDS)
NUM_FEEDS == 2

\* the per-task cap of extract_pay: 0 < amount < 5000
PAY_CAP == 5000

\* gemini: for attempt in range(3)
GEMINI_ATTEMPTS == 3

\* gemini: wait = 30 * (attempt + 1) on status 429
RATE_LIMIT_WAIT == 30

\* gemini: time.sleep(5) after any other failed attempt
ERROR_WAIT == 5

\* log_event(key, 'orchestrator', 'error', str(e)[:200])
ERROR_DETAIL_MAX == 200

(***************************************************************************)
(* Bounds of the model                                                     *)
(***************************************************************************)
\* identifiers of candidates / task keys are 1..NumIds
NumIds == 2

\* the feeds of one run yield at most MaxCandidates candidates in all
MaxCandidates == 2

\* at most MaxStoreFaults Record Store calls of a run fail
MaxStoreFaults == 1

\* a text given to extract_pay holds at most MaxAmounts dollar amounts
MaxAmounts == 2

Ids == 1..NumIds

(***************************************************************************)
(* JSON / dict helpers                                                     *)
(***************************************************************************)
EmptyDict == <<>>

\* dict.get(k, dflt)
Get(d, k, dflt) == IF k \in DOMAIN d THEN d[k] ELSE dflt

\* a JSON value of the wrong type where a number is expected (a string, null,
\* a list): comparing it with an int raises TypeError in Python
NonNumeric == -1

\* a JSON value that is not a string where a string is expected (null)
NullStr == "<null>"

(***************************************************************************)
(* Texts: a text is its leading whitespace, its core (first to last        *)
(* non-blank character) and its trailing whitespace, by length.            *)
(***************************************************************************)
Text(l, c, t) == [lead |-> l, core |-> c, trail |-> t]

TextLen(t) == t.lead + t.core + t.trail

\* str.strip(): a text without non-blank characters strips to the empty text
strip(t) == IF t.core = 0 THEN Text(0, 0, 0) ELSE Text(0, t.core, 0)

NoText == Text(0, 0, 0)

\* texts the Generator may return in text mode
Texts == { Text(3, 0, 0), Text(1, 149, 0), Text(0, 149, 1),
           Text(0, 150, 0), Text(1, 500, 1) }

(***************************************************************************)
(* gemini(): what a call hands to the calling stage.                       *)
(*   raise   - an exception (HTTP error on the last attempt, invalid JSON) *)
(*   none    - the loop ran out on rate limits: the function returns None  *)
(*   nondict - JSON mode, the parsed value is not an object                *)
(*   value   - the parsed object (json) or the text (text)                 *)
(***************************************************************************)
GeminiFailures == { [kind |-> "raise"], [kind |-> "none"] }

GeminiJson(payloads) ==
    GeminiFailures \cup { [kind |-> "nondict"] }
        \cup { [kind |-> "value", json |-> d] : d \in payloads }

GeminiText ==
    GeminiFailures \cup { [kind |-> "value", text |-> t] : t \in Texts }

NoResponse == [kind |-> "idle"]

Opt(key, values) == { EmptyDict } \cup { (key :> v) : v \in values }

ScoutReasons == { "job_listing", "self_promotion", "scam", "vague",
                  "in_person", "no_deliverable", "none" }

\* Scout responses: no fields at all, a rejection with each reason code, with
\* a null reason or with none, and an acceptance with or without a reason
ScoutPayloads ==
    { EmptyDict, [is_real_task |-> FALSE], [rejection_reason |-> "scam"] }
    \cup { [is_real_task |-> FALSE, rejection_reason |-> r] :
             r \in ScoutReasons \cup {NullStr} }
    \cup { [is_real_task |-> TRUE, deliverable_type |-> "writing"],
           [is_real_task |-> TRUE, rejection_reason |-> "vague"] }

\* Evaluator responses: every combination of verdict and confidence, each
\* possibly missing, and rejections that give a reason or a null reason
EvaluatorPayloads ==
    { a @@ b : a \in Opt("verdict", {"accept", "reject"}),
               b \in Opt("overall_confidence", {69, 70, NonNumeric}) }
    \cup { [verdict |-> "reject", overall_confidence |-> 69, rejection_reason |-> r] :
             r \in {"blocked", NullStr} }

PlannerPayloads == { [format |-> "markdown"] }

CriticPayloads ==
    { a @@ b : a \in Opt("quality_score", {60, 75, NonNumeric}),
               b \in Opt("ready_to_send", BOOLEAN) }

(***************************************************************************)
(* extract_pay(text).  A text is the phrasing around its amounts and the   *)
(* amounts as written: the digits before the first comma, the three-digit  *)
(* groups after each comma, and two decimals (0 when none are written).    *)
(***************************************************************************)
Amount(h, g, c) == [head |-> h, groups |-> g, cents |-> c]

\* re.findall(r'\$\s*(\d+(?:,\d+)?(?:\.\d+)?)') and float(m.replace(',', '')):
\* the digits, at most one comma group, and decimals only when they follow
\* directly; the value in cents
Matched(a) ==
    CASE Len(a.groups) = 0 -> a.head * 100 + a.cents
      [] Len(a.groups) = 1 -> (a.head * 1000 + a.groups[1]) * 100 + a.cents
      [] OTHER             -> (a.head * 1000 + a.groups[1]) * 100

\* the phrasings the salary pattern of extract_pay matches (re.I):
\* per (month|year|deal|hour|hr|week)\b | \bsalar | \bcommission\b |
\* \bannual | \bhourly
SalaryPattern == { "per month", "per year", "per deal", "per hour", "per hr",
                   "per week", "salary", "commission", "annual", "hourly" }

\* phrasings a text may hold: none, those of the pattern, and period prices
\* written otherwise
Phrasings == { "", "per month", "salary", "hourly", "/month", "/hr", "monthly" }

\* f"{x:.0f}": a float of cents/100 rounded to an integer, ties to even
Format0f(cents) ==
    LET w == cents \div 100
        r == cents % 100
    IN  IF r > 50 \/ (r = 50 /\ w % 2 = 1) THEN w + 1 ELSE w

Max(S) == CHOOSE x \in S : \A y \in S : y <= x

\* None, or the string "$<dollars>"
NoPay == [found |-> FALSE, dollars |-> 0]

NoPayText == [phrasing |-> "", amounts |-> <<>>]

extract_pay(text) ==
    IF text.phrasing \in SalaryPattern
    THEN NoPay
    ELSE LET matches == { Matched(text.amounts[i]) : i \in DOMAIN text.amounts }
             vals    == { v \in matches : 0 < v /\ v < PAY_CAP * 100 }
         IN  IF vals = {} THEN NoPay
             ELSE [found |-> TRUE, dollars |-> Format0f(Max(vals))]

\* amounts as posts write them: $0, $0.50, $50, $120, $500, $4999.60,
\* $4,999, $5000, $50,000 and $1,000,000
Amounts == { Amount(0, <<>>, 0), Amount(0, <<>>, 50), Amount(50, <<>>, 0),
             Amount(120, <<>>, 0), Amount(500, <<>>, 0), Amount(4999, <<>>, 60),
             Amount(4, <<999>>, 0), Amount(5000, <<>>, 0), Amount(50, <<0>>, 0),
             Amount(1, <<0, 0>>, 0) }

SeqsUpTo(S, n) == UNION { [1..k -> S] : k \in 0..n }

PayTexts == { [phrasing |-> p, amounts |-> a] :
                p \in Phrasings, a \in SeqsUpTo(Amounts, MaxAmounts) }

(***************************************************************************)
(* Stage outcomes: {'approved': ..., 'data': ..., 'reason': ...}           *)
(***************************************************************************)
Outcome(a, d, r) == [approved |-> a, data |-> d, reason |-> r]

NoResult == Outcome(FALSE, EmptyDict, "<unset>")

\* a truthy JSON value that is not an object, kept as stage data
NonDict == [nondict |-> TRUE]

IsDict(d) == "nondict" \notin DOMAIN d

\* AGENT 1: SCOUT (try/except of agent_scout)
agent_scout(resp) ==
    IF resp.kind # "value"
    THEN Outcome(FALSE, EmptyDict, "scout_error")
    ELSE LET data     == resp.json
             approved == Get(data, "is_real_task", FALSE)
             reason   == IF ~approved
                         THEN Get(data, "rejection_reason", "none")
                         ELSE "accepted"
         IN  Outcome(approved, data, reason)

\* agent_evaluator with `or` for `and` in the acceptance rule
agent_evaluator_or(resp) ==
    IF resp.kind # "value"
    THEN Outcome(FALSE, EmptyDict, "evaluator_error")
    ELSE LET data       == resp.json
             confidence == Get(data, "overall_confidence", 0)
             verdict    == Get(data, "verdict", "reject")
         IN  IF verdict # "accept" /\ confidence = NonNumeric
             THEN Outcome(FALSE, EmptyDict, "evaluator_error")
             ELSE LET approved == (verdict = "accept")
                                    \/ (confidence >= MIN_CONFIDENCE)
                  IN  Outcome(approved, data,
                              IF approved THEN "confidence"
                              ELSE Get(data, "rejection_reason", "low confidence"))

\* AGENT 2: EVALUATOR (try/except of agent_evaluator); `and` evaluates the
\* comparison only when the verdict is accept
agent_evaluator(resp) ==
    IF resp.kind # "value"
    THEN Outcome(FALSE, EmptyDict, "evaluator_error")
    ELSE LET data       == resp.json
             confidence == Get(data, "overall_confidence", 0)
             verdict    == Get(data, "verdict", "reject")
         IN  IF verdict = "accept" /\ confidence = NonNumeric
             THEN Outcome(FALSE, EmptyDict, "evaluator_error")
             ELSE LET approved == (verdict = "accept")
                                    /\ (confidence >= MIN_CONFIDENCE)
                  IN  Outcome(approved, data,
                              IF approved THEN "confidence"
                              ELSE Get(data, "rejection_reason", "low confidence"))

\* AGENT 3: PLANNER (try/except of agent_planner): the value gemini returned
\* is passed on unread, an exception gives the empty blueprint
agent_planner(resp) ==
    CASE resp.kind = "value"   -> Outcome(TRUE, resp.json, "plan_ready")
      [] resp.kind = "nondict" -> Outcome(TRUE, NonDict, "plan_ready")
      [] resp.kind = "none"    -> Outcome(TRUE, EmptyDict, "plan_ready")
      [] OTHER                 -> Outcome(TRUE, EmptyDict, "planner_degraded")

\* agent_executor measuring len(output) instead of len(output.strip())
agent_executor_nostrip(resp) ==
    IF resp.kind = "value" /\ TextLen(resp.text) >= MIN_OUTPUT_LEN
    THEN Outcome(TRUE, [output |-> resp.text], "executed")
    ELSE Outcome(FALSE, EmptyDict, "executor_error")

\* AGENT 4: EXECUTOR (try/except of agent_executor)
agent_executor(resp) ==
    IF resp.kind = "value" /\ TextLen(strip(resp.text)) >= MIN_OUTPUT_LEN
    THEN Outcome(TRUE, [output |-> resp.text], "executed")
    ELSE Outcome(FALSE, EmptyDict, "executor_error")

\* a Critic that fails closed when the review call fails
critic_fail_closed ==
    Outcome(FALSE, [quality_score |-> 0, ready_to_send |-> FALSE], "critic_error")

\* AGENT 5: CRITIC (try/except of agent_critic)
critic_degraded ==
    Outcome(TRUE, [quality_score |-> CRITIC_DEFAULT_SCORE, ready_to_send |-> TRUE],
            "critic_degraded")

\* agent_critic with `or` for `and` in the acceptance rule
agent_critic_or(resp) ==
    IF resp.kind # "value"
    THEN critic_degraded
    ELSE LET data  == resp.json
             score == Get(data, "quality_score", 0)
             ready == Get(data, "ready_to_send", FALSE)
         IN  IF score = NonNumeric
             THEN critic_degraded
             ELSE Outcome(score >= MIN_QUALITY \/ ready, data, "score")

agent_critic(resp) ==
    IF resp.kind # "value"
    THEN critic_degraded
    ELSE LET data  == resp.json
             score == Get(data, "quality_score", 0)
             ready == Get(data, "ready_to_send", FALSE)
         IN  IF score = NonNumeric
             THEN critic_degraded
             ELSE Outcome(score >= MIN_QUALITY /\ ready, data, "score")

\* an Improver that hands on whatever the failed call left
agent_improver_lossy(resp, original_output) ==
    IF resp.kind = "value" /\ TextLen(strip(resp.text)) >= MIN_OUTPUT_LEN
    THEN Outcome(TRUE, [output |-> resp.text], "improved")
    ELSE Outcome(TRUE, [output |-> IF resp.kind = "value" THEN resp.text ELSE NoText],
                 "improver_failed")

\* AGENT 6: IMPROVER (try/except of agent_improver)
agent_improver(resp, original_output) ==
    IF resp.kind = "value" /\ TextLen(strip(resp.text)) >= MIN_OUTPUT_LEN
    THEN Outcome(TRUE, [output |-> resp.text], "improved")
    ELSE Outcome(TRUE, [output |-> original_output], "improver_failed")

(***************************************************************************)
(* State                                                                   *)
(***************************************************************************)
VARIABLES
    tasks,          \* Record Store /tasks: key -> task record (a dict)
    task_evals,     \* Record Store /task_evals: key -> Evaluator payload
    faults,         \* Record Store calls that failed so far
    pc,             \* the orchestrator's position
    \* run_fetch_pipeline
    existing_ids, feed_i, new_raw, item_i, attempt, scout_result, eval_result,
    accepted_tasks, stats, push_i,
    \* run_execution_pipeline
    approved, cur, eval_data, plan_result, exec_attempt, exec_result, output,
    critic_result, score, recheck, err,
    \* history
    gen_resp,       \* what the Generator returned to the stage called last
    item_log,       \* stage calls and writes for the current candidate / task
    seen,           \* candidates the feeds of this run have yielded so far
    touched,        \* ids intake has run a stage on or issued a write for
    staged,         \* keys fulfillment has run a stage on
    tasks_at_start, \* /tasks when the running pipeline started
    \* one call of gemini()
    g_json,         \* expect_json
    g_attempt,      \* the loop variable of `for attempt in range(3)`
    g_log,          \* per HTTP attempt made: the answer and the seconds slept
    g_ret,          \* how the call ended: a return value or an exception
    \* one call of extract_pay()
    pay_text,       \* the argument
    pay_result,     \* the return value
    \* what the run has passed on and written
    critique,       \* the critique argument of the agent_scout call made last
    reviewed,       \* the output argument of the agent_critic call made last
    pushed          \* ids whose task record intake has written in this run

storeVars == <<tasks, task_evals, faults>>

fetchVars == <<existing_ids, feed_i, new_raw, item_i, attempt, scout_result,
               eval_result, accepted_tasks, stats, push_i>>

execVars == <<approved, cur, eval_data, plan_result, exec_attempt, exec_result,
              output, critic_result, score, recheck, err>>

histVars == <<gen_resp, item_log, seen, touched, staged, tasks_at_start>>

utilVars == <<g_json, g_attempt, g_log, g_ret, pay_text, pay_result>>

traceVars == <<critique, reviewed, pushed>>

vars == <<storeVars, pc, fetchVars, execVars, histVars, utilVars, traceVars>>

Statuses == { "inbox", "approved", "executing", "done", "done_flagged", "error" }

Terminal == { "done", "done_flagged", "error" }

Entry(agent, status) == [agent |-> agent, status |-> status]

(***************************************************************************)
(* str(e): the text of an exception, by what raised it and its length in   *)
(* characters                                                              *)
(***************************************************************************)
Message(what, len) == [what |-> what, len |-> len]

\* the texts of the exceptions requests raises for a failed round trip: a
\* read timeout names the host only, a connection error names the host, the
\* URL and the cause
StoreErrorLens == { 100, 290 }

\* the texts the exception caught by fulfillment's handler can have
str(e) ==
    CASE e = "executor_failed" -> { Message(e, 32) }
      [] e = "attribute_error" -> { Message(e, 36) }
      [] e = "store_error"     -> { Message(e, n) : n \in StoreErrorLens }
      [] OTHER                 -> { Message(e, 0) }

(***************************************************************************)
(* The Record Store before a run: every key either absent or holding a     *)
(* task in one of the statuses, as earlier runs and the dashboard leave it *)
(***************************************************************************)
StoredEval == [verdict |-> "accept", overall_confidence |-> 70]

StoredTask(st) ==
    LET base == [status |-> st, aiConfidence |-> 70]
        run  == <<Entry("orchestrator", "started"), Entry("planner", "complete")>>
        fin  == run \o <<Entry("executor", "success"), Entry("critic", "scored"),
                         Entry("orchestrator", "done")>>
    IN  CASE st = "executing"    -> base @@ [agent_log |-> run]
          [] st = "done"         -> base @@ [agent_log |-> fin, qualityScore |-> 75,
                                             output |-> Text(0, 150, 0)]
          [] st = "done_flagged" -> base @@ [agent_log |-> fin, qualityScore |-> 60,
                                             output |-> Text(0, 150, 0)]
          [] st = "error"        -> base @@ [agent_log |-> run \o
                                                 <<Entry("orchestrator", "error")>>,
                                             error |-> Message("executor_failed", 32)]
          [] OTHER               -> base

Stores(statuses) ==
    UNION { [S -> { StoredTask(st) : st \in statuses }] : S \in SUBSET Ids }

NoStats == [total_raw |-> 0, job_listing |-> 0, scam_vague |-> 0,
            in_person |-> 0, low_confidence |-> 0, accepted |-> 0]

FetchLocalsInit ==
    /\ existing_ids = {}
    /\ feed_i = 0
    /\ new_raw = <<>>
    /\ item_i = 0
    /\ attempt = 0
    /\ scout_result = NoResult
    /\ eval_result = NoResult
    /\ accepted_tasks = <<>>
    /\ stats = NoStats
    /\ push_i = 0

ExecLocalsInit ==
    /\ approved = <<>>
    /\ cur = 0
    /\ eval_data = EmptyDict
    /\ plan_result = NoResult
    /\ exec_attempt = 0
    /\ exec_result = NoResult
    /\ output = NoText
    /\ critic_result = NoResult
    /\ score = 0
    /\ recheck = NoResult
    /\ err = ""

StoreInit(statuses) ==
    /\ tasks \in Stores(statuses)
    /\ task_evals = [k \in DOMAIN tasks |-> StoredEval]
    /\ faults = 0

\* no call of gemini() or extract_pay() of its own is being followed
GeminiIdle ==
    /\ g_json = FALSE
    /\ g_attempt = 0
    /\ g_log = <<>>
    /\ g_ret = NoResponse

PayIdle ==
    /\ pay_text = NoPayText
    /\ pay_result = NoPay

HistInit ==
    /\ gen_resp = NoResponse
    /\ item_log = <<>>
    /\ seen = 0
    /\ touched = {}
    /\ staged = {}
    /\ tasks_at_start = tasks
    /\ critique = ""
    /\ reviewed = NoText
    /\ pushed = {}

\* the entry point: run_fetch_pipeline() is called first
Init ==
    /\ StoreInit(Statuses) /\ FetchLocalsInit /\ ExecLocalsInit /\ HistInit
    /\ GeminiIdle /\ PayIdle
    /\ pc = "fetch_load"

(***************************************************************************)
(* fb(): one HTTP round trip to the Record Store.                          *)
(*   ok     - status 200: the write is applied / the value is returned     *)
(*   non200 - any other status: nothing is applied, fb returns None        *)
(*   raise  - requests raises (timeout, connection error): nothing applied *)
(***************************************************************************)
FbOutcomes == { "ok", "non200", "raise" }

Failed(o) == IF o \in { "non200", "raise" } THEN 1 ELSE 0

FbAllowed(n) == faults + n <= MaxStoreFaults

\* fb(path, 'PATCH', data): merge data into the record
fb_patch(store, key, data, o) ==
    IF o = "ok" THEN [store EXCEPT ![key] = data @@ @] ELSE store

\* fb(path, 'PUT', data): replace the record
fb_put(store, key, data, o) ==
    IF o = "ok" THEN (key :> data) @@ store ELSE store

\* log_event: GET the log (outcome g), append, PUT it back (outcome p);
\* the PUT is skipped when the GET raises
LogOutcomes ==
    { <<g, p>> \in FbOutcomes \X (FbOutcomes \cup { "skipped" }) :
        (g = "raise") <=> (p = "skipped") }

LogRaises(gp) == gp[1] = "raise" \/ gp[2] = "raise"

log_event(store, key, entry, gp) ==
    LET existing == IF gp[1] = "ok" THEN Get(store[key], "agent_log", <<>>)
                                    ELSE <<>>
    IN  IF gp[2] = "ok"
        THEN [store EXCEPT ![key] = [agent_log |-> Append(existing, entry)] @@ @]
        ELSE store

\* history: a stage call or a write, with how it came out
Did(what, how) == [stage |-> what, verdict |-> how]

(***************************************************************************)
(* ORCHESTRATOR - FETCH PIPELINE (run_fetch_pipeline)                      *)
(***************************************************************************)
\* the ids of S in ascending order
Ascending(S) ==
    CHOOSE f \in [1..Cardinality(S) -> S] :
        \A i, j \in 1..Cardinality(S) : i < j => f[i] < f[j]

\* what parse_rss returns for one poll of a feed: a list of at most n
\* candidates, each post listed once; the two feeds may list the same id
FeedContents(n) == { Ascending(S) : S \in { T \in SUBSET Ids : Cardinality(T) <= n } }

\* "Clear rejections don't retry"
DefinitiveReasons == { "job_listing", "self_promotion", "in_person", "scam" }

\* the Scout loop with scam missing from the clear rejections
ScoutBreaks_noscam(r) ==
    r.approved \/ r.reason \in { "job_listing", "self_promotion", "in_person" }

\* the two `break`s of the Scout loop
ScoutBreaks(r) == r.approved \/ r.reason \in DefinitiveReasons

\* a loop that gives up one iteration early
RangeHasNext_under(a) == a + 1 < MAX_RETRIES - 1

\* a loop that runs one iteration too many
RangeHasNext_over(a) == a + 1 <= MAX_RETRIES

\* scout_result = agent_scout(raw_task): the call passes the candidate only,
\* whatever the previous attempt returned, and critique takes its default ''
ScoutCritique(previous) == ""

\* for attempt in range(MAX_RETRIES): is there another iteration after `a`
RangeHasNext(a) == a + 1 < MAX_RETRIES

\* `'x' in reason` on the reasons of the model, which are whole reason codes
Contains(reason, sub) == reason = sub

\* the statistics bucket of a Scout rejection
Bucket(reason) ==
    IF Contains(reason, "job_listing") \/ Contains(reason, "self_promotion")
    THEN "job_listing"
    ELSE IF Contains(reason, "in_person") \/ Contains(reason, "scam")
         THEN "in_person"
         ELSE "scam_vague"

\* history: a Scout outcome as the stage contract classifies it
ScoutVerdict(r) ==
    IF r.approved THEN "approved"
    ELSE IF r.reason \in { "job_listing", "self_promotion", "in_person", "scam" }
         THEN "definitive"
         ELSE "retryable"

ResetItem ==
    /\ attempt' = 0
    /\ scout_result' = NoResult
    /\ eval_result' = NoResult
    /\ item_log' = <<>>

\* the end of a feed's body, `continue` on a failed poll, or the except of
\* the feed's try: next feed, or the push of the accepted tasks
EndFeed ==
    /\ new_raw' = <<>>
    /\ item_i' = 0
    /\ IF feed_i < NUM_FEEDS
       THEN /\ feed_i' = feed_i + 1
            /\ pc' = "fetch_feed"
            /\ push_i' = push_i
       ELSE /\ feed_i' = 0
            /\ pc' = IF accepted_tasks' = <<>> THEN "fetch_report" ELSE "fetch_put_task"
            /\ push_i' = IF accepted_tasks' = <<>> THEN 0 ELSE 1

\* `continue` in the candidate loop, or the end of its body
EndItem ==
    /\ ResetItem
    /\ IF item_i < Len(new_raw)
       THEN /\ item_i' = item_i + 1
            /\ pc' = "fetch_scout"
            /\ UNCHANGED <<feed_i, new_raw, push_i>>
       ELSE EndFeed

\* existing = fb('/tasks') or {}
Fetch_Load ==
    /\ UNCHANGED <<utilVars, traceVars>>
    /\ pc = "fetch_load"
    /\ \E o \in FbOutcomes :
        /\ FbAllowed(Failed(o))
        /\ faults' = faults + Failed(o)
        /\ IF o = "raise"
           THEN /\ pc' = "crashed"
                /\ UNCHANGED <<existing_ids, feed_i>>
           ELSE /\ existing_ids' = IF o = "ok" THEN DOMAIN tasks ELSE {}
                /\ feed_i' = 1
                /\ pc' = "fetch_feed"
    /\ gen_resp' = NoResponse
    /\ UNCHANGED <<tasks, task_evals, new_raw, item_i, attempt, scout_result,
                   eval_result, accepted_tasks, stats, push_i, execVars,
                   item_log, seen, touched, staged, tasks_at_start>>

\* requests.get(feed_url), parse_rss, the dedup filter and total_raw
Fetch_Feed ==
    /\ UNCHANGED <<utilVars, traceVars>>
    /\ pc = "fetch_feed"
    /\ \E rss \in { "ok", "not_ok", "raise" },
          raw_tasks \in FeedContents(MaxCandidates - seen) :
        /\ rss # "ok" => raw_tasks = <<>>
        /\ seen' = seen + Len(raw_tasks)
        /\ LET fresh == SelectSeq(raw_tasks, LAMBDA id : id \notin existing_ids)
           IN  /\ accepted_tasks' = accepted_tasks
               /\ IF rss # "ok" \/ fresh = <<>>
                  THEN /\ EndFeed
                       /\ stats' = stats
                  ELSE /\ new_raw' = fresh
                       /\ stats' = [stats EXCEPT !.total_raw = @ + Len(fresh)]
                       /\ item_i' = 1
                       /\ pc' = "fetch_scout"
                       /\ UNCHANGED <<feed_i, push_i>>
    /\ gen_resp' = NoResponse
    /\ UNCHANGED <<storeVars, existing_ids, attempt, scout_result, eval_result,
                   execVars, item_log, touched, staged, tasks_at_start>>

\* one iteration of the Scout loop
Fetch_Scout ==
    /\ UNCHANGED <<utilVars, reviewed, pushed>>
    /\ pc = "fetch_scout"
    /\ critique' = ScoutCritique(scout_result)
    /\ \E resp \in GeminiJson(ScoutPayloads) :
        LET r == agent_scout(resp)
        IN  /\ scout_result' = r
            /\ gen_resp' = resp
            /\ item_log' = Append(item_log, Did("scout", ScoutVerdict(r)))
            /\ IF ScoutBreaks(r)
               THEN /\ attempt' = attempt
                    /\ pc' = IF r.approved THEN "fetch_evaluator"
                                           ELSE "fetch_scout_rejected"
               ELSE /\ attempt' = attempt + 1
                    /\ pc' = IF RangeHasNext(attempt) THEN "fetch_scout"
                                                      ELSE "fetch_scout_rejected"
    /\ touched' = touched \cup { new_raw[item_i] }
    /\ UNCHANGED <<storeVars, existing_ids, feed_i, new_raw, item_i, eval_result,
                   accepted_tasks, stats, push_i, execVars, seen, staged,
                   tasks_at_start>>

\* if not scout_result['approved']: the bucket, then continue; a reason that
\* is not a string makes `in` raise, which the feed's except catches
Fetch_ScoutRejected ==
    /\ UNCHANGED <<utilVars, traceVars>>
    /\ pc = "fetch_scout_rejected"
    /\ accepted_tasks' = accepted_tasks
    /\ IF scout_result.reason = NullStr
       THEN /\ stats' = stats
            /\ ResetItem
            /\ EndFeed
       ELSE /\ stats' = [stats EXCEPT ![Bucket(scout_result.reason)] = @ + 1]
            /\ EndItem
    /\ gen_resp' = NoResponse
    /\ UNCHANGED <<storeVars, existing_ids, execVars, seen, touched, staged,
                   tasks_at_start>>

\* eval_result = agent_evaluator(raw_task, scout_result['data'])
Fetch_Evaluator ==
    /\ UNCHANGED <<utilVars, traceVars>>
    /\ pc = "fetch_evaluator"
    /\ \E resp \in GeminiJson(EvaluatorPayloads) :
        LET r == agent_evaluator(resp)
        IN  /\ eval_result' = r
            /\ gen_resp' = resp
            /\ item_log' = Append(item_log,
                   Did("evaluator", IF r.approved THEN "approved" ELSE "rejected"))
    /\ pc' = "fetch_evaluated"
    /\ UNCHANGED <<storeVars, existing_ids, feed_i, new_raw, item_i, attempt,
                   scout_result, accepted_tasks, stats, push_i, execVars, seen,
                   touched, staged, tasks_at_start>>

\* an intake that marks what it accepts as approved
NewTask_approved(id, conf) == [status |-> "approved", aiConfidence |-> conf]

\* the task record built for an accepted candidate
NewTask(id, conf) == [status |-> "inbox", aiConfidence |-> conf]

\* the Evaluator's verdict applied: low_confidence and continue, or the task
\* appended to accepted_tasks; eval_result['reason'][:60] raises on a reason
\* that is not a string
Fetch_Evaluated ==
    /\ UNCHANGED <<utilVars, traceVars>>
    /\ pc = "fetch_evaluated"
    /\ IF ~eval_result.approved
       THEN /\ accepted_tasks' = accepted_tasks
            /\ IF eval_result.reason = NullStr
               THEN /\ stats' = stats
                    /\ ResetItem
                    /\ EndFeed
               ELSE /\ stats' = [stats EXCEPT !.low_confidence = @ + 1]
                    /\ EndItem
       ELSE LET id   == new_raw[item_i]
                conf == Get(eval_result.data, "overall_confidence", 0)
            IN  /\ accepted_tasks' = Append(accepted_tasks,
                        [id |-> id, task |-> NewTask(id, conf),
                         evalData |-> eval_result.data])
                /\ stats' = [stats EXCEPT !.accepted = @ + 1]
                /\ EndItem
    /\ gen_resp' = NoResponse
    /\ UNCHANGED <<storeVars, existing_ids, execVars, seen, touched, staged,
                   tasks_at_start>>

\* fb(f'/tasks/{task["id"]}', 'PUT', task)
Fetch_PutTask ==
    /\ UNCHANGED <<utilVars, critique, reviewed>>
    /\ pc = "fetch_put_task"
    /\ \E o \in FbOutcomes :
        /\ FbAllowed(Failed(o))
        /\ faults' = faults + Failed(o)
        /\ pushed' = IF o = "ok" THEN pushed \cup { accepted_tasks[push_i].id }
                                 ELSE pushed
        /\ tasks' = fb_put(tasks, accepted_tasks[push_i].id,
                           accepted_tasks[push_i].task, o)
        /\ pc' = IF o = "raise" THEN "crashed" ELSE "fetch_put_eval"
    /\ touched' = touched \cup { accepted_tasks[push_i].id }
    /\ gen_resp' = NoResponse
    /\ UNCHANGED <<task_evals, fetchVars, execVars, item_log, seen, staged,
                   tasks_at_start>>

\* fb(f'/task_evals/{task["id"]}', 'PUT', eval_data)
Fetch_PutEval ==
    /\ UNCHANGED <<utilVars, traceVars>>
    /\ pc = "fetch_put_eval"
    /\ \E o \in FbOutcomes :
        /\ FbAllowed(Failed(o))
        /\ faults' = faults + Failed(o)
        /\ task_evals' = fb_put(task_evals, accepted_tasks[push_i].id,
                                accepted_tasks[push_i].evalData, o)
        /\ IF o = "raise"
           THEN pc' = "crashed" /\ push_i' = push_i
           ELSE IF push_i < Len(accepted_tasks)
                THEN pc' = "fetch_put_task" /\ push_i' = push_i + 1
                ELSE pc' = "fetch_report" /\ push_i' = push_i
    /\ touched' = touched \cup { accepted_tasks[push_i].id }
    /\ gen_resp' = NoResponse
    /\ UNCHANGED <<tasks, existing_ids, feed_i, new_raw, item_i, attempt,
                   scout_result, eval_result, accepted_tasks, stats, execVars,
                   item_log, seen, staged, tasks_at_start>>

\* the FETCH STATS report; run_fetch_pipeline returns and the entry point
\* calls run_execution_pipeline
Fetch_Report ==
    /\ UNCHANGED <<utilVars, traceVars>>
    /\ pc = "fetch_report"
    /\ pc' = "exec_load"
    /\ existing_ids' = {}
    /\ accepted_tasks' = <<>>
    /\ stats' = NoStats
    /\ push_i' = 0
    /\ gen_resp' = NoResponse
    /\ UNCHANGED <<storeVars, feed_i, new_raw, item_i, attempt, scout_result,
                   eval_result, execVars, item_log, seen, touched, staged,
                   tasks_at_start>>

NextFetch ==
    \/ Fetch_Load
    \/ Fetch_Feed
    \/ Fetch_Scout
    \/ Fetch_ScoutRejected
    \/ Fetch_Evaluator
    \/ Fetch_Evaluated
    \/ Fetch_PutTask
    \/ Fetch_PutEval
    \/ Fetch_Report

\* intake alone, on a store that holds the finished tasks of earlier runs
InitFetch ==
    /\ StoreInit({ "done" }) /\ FetchLocalsInit /\ ExecLocalsInit /\ HistInit
    /\ GeminiIdle /\ PayIdle
    /\ pc = "fetch_load"

SpecFetch == InitFetch /\ [][NextFetch]_vars

(***************************************************************************)
(* ORCHESTRATOR - EXECUTION PIPELINE (run_execution_pipeline)              *)
(***************************************************************************)
\* a filter that also picks up tasks stranded in executing
IsApproved_orExecuting(v) == Get(v, "status", "") \in { "approved", "executing" }

\* the filter of the approved dict
IsApproved(v) == Get(v, "status", "") = "approved"

\* the finalization with > for >=
FinalStatus_strict(s) == IF s > MIN_QUALITY THEN "done" ELSE "done_flagged"

\* final_status = 'done' if score >= MIN_QUALITY else 'done_flagged'
FinalStatus(s) == IF s >= MIN_QUALITY THEN "done" ELSE "done_flagged"

\* a pipeline that re-reviews a rejected text without improving it
AfterCritic_recheck(r) == IF ~r.approved THEN "exec_recheck" ELSE "exec_finalize"

\* where control goes after the first review
AfterCritic(r) == IF ~r.approved THEN "exec_log_improver" ELSE "exec_finalize"

\* a pipeline that improves again when the re-review rejects
AfterRecheck_again(r) == IF ~r.approved THEN "exec_log_improver" ELSE "exec_finalize"

\* where control goes after the re-review: the `if` block ends, FINALIZE follows
AfterRecheck(r) == "exec_finalize"

Key == approved[cur]

\* the locals of one iteration of the task loop, as a fresh iteration sees them
ResetTask ==
    /\ eval_data' = EmptyDict
    /\ plan_result' = NoResult
    /\ exec_attempt' = 0
    /\ exec_result' = NoResult
    /\ output' = NoText
    /\ critic_result' = NoResult
    /\ score' = 0
    /\ recheck' = NoResult
    /\ err' = ""
    /\ item_log' = <<>>
    /\ reviewed' = NoText

\* the end of the loop body: the next approved task, or the function returns
EndTask ==
    /\ ResetTask
    /\ IF cur < Len(approved)
       THEN cur' = cur + 1 /\ pc' = "exec_start"
       ELSE cur' = 0 /\ pc' = "exit"
    /\ approved' = IF cur < Len(approved) THEN approved ELSE <<>>

\* the Executor loop is left: its locals and the stage inputs are read no more
LoopOver ==
    /\ exec_attempt' = 0
    /\ exec_result' = NoResult
    /\ plan_result' = NoResult
    /\ eval_data' = EmptyDict

\* a log_event call inside the try block: an exception of fb goes to except
LogInTry(agent, status, next) ==
    \E gp \in LogOutcomes :
        /\ FbAllowed(Failed(gp[1]) + Failed(gp[2]))
        /\ faults' = faults + Failed(gp[1]) + Failed(gp[2])
        /\ tasks' = log_event(tasks, Key, Entry(agent, status), gp)
        /\ pc' = IF LogRaises(gp) THEN "exec_except" ELSE next
        /\ err' = IF LogRaises(gp) THEN "store_error" ELSE err

\* a log_event call outside the try block: an exception of fb ends the run
LogOutside(agent, status, next) ==
    \E gp \in LogOutcomes :
        /\ FbAllowed(Failed(gp[1]) + Failed(gp[2]))
        /\ faults' = faults + Failed(gp[1]) + Failed(gp[2])
        /\ tasks' = log_event(tasks, Key, Entry(agent, status), gp)
        /\ pc' = IF LogRaises(gp) THEN "crashed" ELSE next

\* all_tasks = fb('/tasks') or {}; the approved dict; return if it is empty
Exec_Load ==
    /\ UNCHANGED <<utilVars, traceVars>>
    /\ pc = "exec_load"
    /\ \E o \in FbOutcomes :
        /\ FbAllowed(Failed(o))
        /\ faults' = faults + Failed(o)
        /\ LET all_tasks == IF o = "ok" THEN tasks ELSE EmptyDict
               keys      == { k \in DOMAIN all_tasks : IsApproved(all_tasks[k]) }
           IN  IF o = "raise"
               THEN pc' = "crashed" /\ UNCHANGED <<approved, cur>>
               ELSE IF keys = {}
                    THEN pc' = "exit" /\ UNCHANGED <<approved, cur>>
                    ELSE /\ approved' = Ascending(keys)
                         /\ cur' = 1
                         /\ pc' = "exec_start"
    /\ gen_resp' = NoResponse
    /\ tasks_at_start' = tasks
    /\ UNCHANGED <<tasks, task_evals, fetchVars, eval_data, plan_result,
                   exec_attempt, exec_result, output, critic_result, score,
                   recheck, err, item_log, seen, touched, staged>>

\* fb(f'/tasks/{key}', 'PATCH', {'status': 'executing'})
Exec_Start ==
    /\ UNCHANGED <<utilVars, traceVars>>
    /\ pc = "exec_start"
    /\ \E o \in FbOutcomes :
        /\ FbAllowed(Failed(o))
        /\ faults' = faults + Failed(o)
        /\ tasks' = fb_patch(tasks, Key, [status |-> "executing"], o)
        /\ pc' = IF o = "raise" THEN "crashed" ELSE "exec_log_started"
        /\ item_log' = Append(item_log, Did("patch_executing", o))
    /\ gen_resp' = NoResponse
    /\ UNCHANGED <<task_evals, fetchVars, execVars, seen, touched, staged,
                   tasks_at_start>>

\* log_event(key, 'orchestrator', 'started', ...)
Exec_LogStarted ==
    /\ UNCHANGED <<utilVars, traceVars>>
    /\ pc = "exec_log_started"
    /\ LogOutside("orchestrator", "started", "exec_evals")
    /\ gen_resp' = NoResponse
    /\ UNCHANGED <<task_evals, fetchVars, execVars, item_log, seen, touched,
                   staged, tasks_at_start>>

\* eval_data = fb(f'/task_evals/{key}') or {}
Exec_Evals ==
    /\ UNCHANGED <<utilVars, traceVars>>
    /\ pc = "exec_evals"
    /\ \E o \in FbOutcomes :
        /\ FbAllowed(Failed(o))
        /\ faults' = faults + Failed(o)
        /\ eval_data' = IF o = "ok" THEN Get(task_evals, Key, EmptyDict) ELSE EmptyDict
        /\ pc' = IF o = "raise" THEN "exec_except" ELSE "exec_planner"
        /\ err' = IF o = "raise" THEN "store_error" ELSE err
    /\ gen_resp' = NoResponse
    /\ UNCHANGED <<tasks, task_evals, fetchVars, approved, cur, plan_result,
                   exec_attempt, exec_result, output, critic_result, score,
                   recheck, item_log, seen, touched, staged, tasks_at_start>>

\* plan_result = agent_planner(task, eval_data)
Exec_Planner ==
    /\ UNCHANGED <<utilVars, traceVars>>
    /\ pc = "exec_planner"
    /\ \E resp \in GeminiJson(PlannerPayloads) :
        /\ plan_result' = agent_planner(resp)
        /\ gen_resp' = resp
    /\ item_log' = Append(item_log, Did("planner", "approved"))
    /\ staged' = staged \cup { Key }
    /\ pc' = "exec_log_planner"
    /\ UNCHANGED <<storeVars, fetchVars, approved, cur, eval_data, exec_attempt,
                   exec_result, output, critic_result, score, recheck, err,
                   seen, touched, tasks_at_start>>

\* log_event(key, 'planner', 'complete', plan_result['reason'])
Exec_LogPlanner ==
    /\ UNCHANGED <<utilVars, traceVars>>
    /\ pc = "exec_log_planner"
    /\ LogInTry("planner", "complete", "exec_executor")
    /\ gen_resp' = NoResponse
    /\ UNCHANGED <<task_evals, fetchVars, approved, cur, eval_data, plan_result,
                   exec_attempt, exec_result, output, critic_result, score,
                   recheck, item_log, seen, touched, staged, tasks_at_start>>

\* exec_result = agent_executor(task, eval_data, plan_result['data']); the
\* blueprint is read before the stage's try, so a blueprint that is no
\* object raises out of the stage
Exec_Executor ==
    /\ UNCHANGED <<utilVars, traceVars>>
    /\ pc = "exec_executor"
    /\ IF ~IsDict(plan_result.data)
       THEN /\ pc' = "exec_except"
            /\ err' = "attribute_error"
            /\ gen_resp' = NoResponse
            /\ item_log' = Append(item_log, Did("executor", "raised"))
            /\ LoopOver
            /\ output' = output
       ELSE \E resp \in GeminiText :
            LET r == agent_executor(resp)
            IN  /\ exec_result' = r
                /\ gen_resp' = resp
                /\ output' = IF r.approved THEN r.data.output ELSE output
                /\ item_log' = Append(item_log,
                       Did("executor", IF r.approved THEN "approved" ELSE "failed"))
                /\ pc' = "exec_log_executor"
                /\ err' = err
                /\ UNCHANGED <<eval_data, plan_result, exec_attempt>>
    /\ staged' = staged \cup { Key }
    /\ UNCHANGED <<storeVars, fetchVars, approved, cur, critic_result, score,
                   recheck, seen, touched, tasks_at_start>>

\* log_event(key, 'executor', 'success' | 'retry', ...), then break, the next
\* attempt, or "Executor failed after MAX_RETRIES attempts"
Exec_LogExecutor ==
    /\ UNCHANGED <<utilVars, traceVars>>
    /\ pc = "exec_log_executor"
    /\ \E gp \in LogOutcomes :
        /\ FbAllowed(Failed(gp[1]) + Failed(gp[2]))
        /\ faults' = faults + Failed(gp[1]) + Failed(gp[2])
        /\ tasks' = log_event(tasks, Key,
                        Entry("executor", IF exec_result.approved THEN "success"
                                                                  ELSE "retry"), gp)
        /\ IF LogRaises(gp)
           THEN /\ pc' = "exec_except"
                /\ err' = "store_error"
                /\ LoopOver
           ELSE IF exec_result.approved
                THEN /\ pc' = "exec_critic"
                     /\ err' = err
                     /\ LoopOver
                ELSE IF RangeHasNext(exec_attempt)
                     THEN /\ pc' = "exec_executor"
                          /\ exec_attempt' = exec_attempt + 1
                          /\ err' = err
                          /\ UNCHANGED <<eval_data, plan_result, exec_result>>
                     ELSE /\ pc' = "exec_except"
                          /\ err' = "executor_failed"
                          /\ LoopOver
    /\ gen_resp' = NoResponse
    /\ UNCHANGED <<task_evals, fetchVars, approved, cur, output, critic_result,
                   score, recheck, item_log, seen, touched, staged,
                   tasks_at_start>>

\* critic_result = agent_critic(task, output); score = ...get('quality_score', 0)
Exec_Critic ==
    /\ UNCHANGED <<utilVars, critique, pushed>>
    /\ pc = "exec_critic"
    /\ reviewed' = output
    /\ \E resp \in GeminiJson(CriticPayloads) :
        LET r == agent_critic(resp)
        IN  /\ critic_result' = r
            /\ score' = Get(r.data, "quality_score", 0)
            /\ gen_resp' = resp
            /\ item_log' = Append(item_log,
                   Did("critic", IF r.approved THEN "approved" ELSE "rejected"))
    /\ staged' = staged \cup { Key }
    /\ pc' = "exec_log_critic"
    /\ UNCHANGED <<storeVars, fetchVars, approved, cur, eval_data, plan_result,
                   exec_attempt, exec_result, output, recheck, err, seen,
                   touched, tasks_at_start>>

\* log_event(key, 'critic', 'scored', ...), then `if not critic_result['approved']`;
\* the review payload is read no more once the branch is taken
Exec_LogCritic ==
    /\ UNCHANGED <<utilVars, traceVars>>
    /\ pc = "exec_log_critic"
    /\ LogInTry("critic", "scored", AfterCritic(critic_result))
    /\ critic_result' = NoResult
    /\ gen_resp' = NoResponse
    /\ UNCHANGED <<task_evals, fetchVars, approved, cur, eval_data, plan_result,
                   exec_attempt, exec_result, output, score, recheck, item_log,
                   seen, touched, staged, tasks_at_start>>

\* log_event(key, 'improver', 'started', ...)
Exec_LogImprover ==
    /\ UNCHANGED <<utilVars, traceVars>>
    /\ pc = "exec_log_improver"
    /\ LogInTry("improver", "started", "exec_improver")
    /\ gen_resp' = NoResponse
    /\ UNCHANGED <<task_evals, fetchVars, approved, cur, eval_data, plan_result,
                   exec_attempt, exec_result, output, critic_result, score,
                   recheck, item_log, seen, touched, staged, tasks_at_start>>

\* improve_result = agent_improver(...); output = ...get('output', output)
Exec_Improver ==
    /\ UNCHANGED <<utilVars, traceVars>>
    /\ pc = "exec_improver"
    /\ \E resp \in GeminiText :
        LET r == agent_improver(resp, output)
        IN  /\ output' = Get(r.data, "output", output)
            /\ gen_resp' = resp
            /\ item_log' = Append(item_log, Did("improver", r.reason))
    /\ staged' = staged \cup { Key }
    /\ pc' = "exec_recheck"
    /\ UNCHANGED <<storeVars, fetchVars, approved, cur, eval_data, plan_result,
                   exec_attempt, exec_result, critic_result, score, recheck, err,
                   seen, touched, tasks_at_start>>

\* recheck = agent_critic(task, output)
Exec_Recheck ==
    /\ UNCHANGED <<utilVars, critique, pushed>>
    /\ pc = "exec_recheck"
    /\ reviewed' = output
    /\ \E resp \in GeminiJson(CriticPayloads) :
        LET r == agent_critic(resp)
        IN  /\ recheck' = r
            /\ gen_resp' = resp
            /\ item_log' = Append(item_log,
                   Did("critic", IF r.approved THEN "approved" ELSE "rejected"))
    /\ staged' = staged \cup { Key }
    /\ pc' = "exec_log_improved"
    /\ UNCHANGED <<storeVars, fetchVars, approved, cur, eval_data, plan_result,
                   exec_attempt, exec_result, output, critic_result, score, err,
                   seen, touched, tasks_at_start>>

\* new_score = recheck['data'].get('quality_score', score);
\* log_event(key, 'improver', 'complete', ...); score = new_score;
\* critic_result = recheck, which is read no more
Exec_LogImproved ==
    /\ UNCHANGED <<utilVars, traceVars>>
    /\ pc = "exec_log_improved"
    /\ LogInTry("improver", "complete", AfterRecheck(recheck))
    /\ score' = IF pc' = "exec_except" THEN score
                ELSE Get(recheck.data, "quality_score", score)
    /\ critic_result' = NoResult
    /\ recheck' = NoResult
    /\ gen_resp' = NoResponse
    /\ UNCHANGED <<task_evals, fetchVars, approved, cur, eval_data, plan_result,
                   exec_attempt, exec_result, output, item_log, seen, touched,
                   staged, tasks_at_start>>

\* FINALIZE: fb(f'/tasks/{key}', 'PATCH', {'status': final_status, 'output': ...,
\* 'qualityScore': score, ...})
Exec_Finalize ==
    /\ UNCHANGED <<utilVars, traceVars>>
    /\ pc = "exec_finalize"
    /\ \E o \in FbOutcomes :
        /\ FbAllowed(Failed(o))
        /\ faults' = faults + Failed(o)
        /\ tasks' = fb_patch(tasks, Key,
                        [status |-> FinalStatus(score), output |-> output,
                         qualityScore |-> score], o)
        /\ pc' = IF o = "raise" THEN "exec_except" ELSE "exec_log_done"
        /\ err' = IF o = "raise" THEN "store_error" ELSE err
        /\ item_log' = Append(item_log, Did("patch_" \o FinalStatus(score), o))
    /\ gen_resp' = NoResponse
    /\ UNCHANGED <<task_evals, fetchVars, approved, cur, eval_data, plan_result,
                   exec_attempt, exec_result, output, critic_result, score,
                   recheck, seen, touched, staged, tasks_at_start>>

\* log_event(key, 'orchestrator', 'done', ...)
Exec_LogDone ==
    /\ UNCHANGED <<utilVars, traceVars>>
    /\ pc = "exec_log_done"
    /\ LogInTry("orchestrator", "done", "exec_email")
    /\ gen_resp' = NoResponse
    /\ UNCHANGED <<task_evals, fetchVars, approved, cur, eval_data, plan_result,
                   exec_attempt, exec_result, output, critic_result, score,
                   recheck, item_log, seen, touched, staged, tasks_at_start>>

\* send_email(...): best effort, its own try swallows every failure
Exec_Email ==
    /\ UNCHANGED <<utilVars, critique, pushed>>
    /\ pc = "exec_email"
    /\ EndTask
    /\ gen_resp' = NoResponse
    /\ UNCHANGED <<storeVars, fetchVars, seen, touched, staged, tasks_at_start>>

\* except Exception as e:
\*     fb(f'/tasks/{key}', 'PATCH', {'status': 'error', 'error': str(e)})
Exec_Except ==
    /\ UNCHANGED <<utilVars, traceVars>>
    /\ pc = "exec_except"
    /\ \E o \in FbOutcomes, m \in str(err) :
        /\ FbAllowed(Failed(o))
        /\ faults' = faults + Failed(o)
        /\ tasks' = fb_patch(tasks, Key, [status |-> "error", error |-> m], o)
        /\ pc' = IF o = "raise" THEN "crashed" ELSE "exec_log_error"
        /\ item_log' = Append(item_log, Did("patch_error", o))
    /\ gen_resp' = NoResponse
    /\ UNCHANGED <<task_evals, fetchVars, execVars, seen, touched, staged,
                   tasks_at_start>>

\* log_event(key, 'orchestrator', 'error', str(e)[:200]), the end of the handler
Exec_LogError ==
    /\ UNCHANGED <<utilVars, critique, pushed>>
    /\ pc = "exec_log_error"
    /\ \E gp \in LogOutcomes :
        /\ FbAllowed(Failed(gp[1]) + Failed(gp[2]))
        /\ faults' = faults + Failed(gp[1]) + Failed(gp[2])
        /\ tasks' = log_event(tasks, Key, Entry("orchestrator", "error"), gp)
        /\ IF LogRaises(gp)
           THEN /\ pc' = "crashed"
                /\ UNCHANGED <<execVars, item_log, reviewed>>
           ELSE EndTask
    /\ gen_resp' = NoResponse
    /\ UNCHANGED <<task_evals, fetchVars, seen, touched, staged, tasks_at_start>>

NextExec ==
    \/ Exec_Load
    \/ Exec_Start
    \/ Exec_LogStarted
    \/ Exec_Evals
    \/ Exec_Planner
    \/ Exec_LogPlanner
    \/ Exec_Executor
    \/ Exec_LogExecutor
    \/ Exec_Critic
    \/ Exec_LogCritic
    \/ Exec_LogImprover
    \/ Exec_Improver
    \/ Exec_Recheck
    \/ Exec_LogImproved
    \/ Exec_Finalize
    \/ Exec_LogDone
    \/ Exec_Email
    \/ Exec_Except
    \/ Exec_LogError

\* stores in which at most one task is approved and the other tasks are in
\* one of the other statuses
OneApproved ==
    { [k \in Ids |-> StoredTask(IF k \in A THEN "approved" ELSE st)] :
        A \in { B \in SUBSET Ids : Cardinality(B) <= 1 },
        st \in Statuses \ { "approved" } }

\* fulfillment alone: one pass of the task loop, Record Store faults included
InitExec ==
    /\ tasks \in OneApproved
    /\ task_evals = [k \in DOMAIN tasks |-> StoredEval]
    /\ faults = 0
    /\ FetchLocalsInit /\ ExecLocalsInit /\ HistInit
    /\ GeminiIdle /\ PayIdle
    /\ pc = "exec_load"

SpecExec == InitExec /\ [][NextExec]_vars

(***************************************************************************)
(* extract_pay on its own: the argument is any text of PayTexts            *)
(***************************************************************************)
\* no pipeline is running: an empty store and fresh locals
PipelinesIdle ==
    /\ tasks = EmptyDict /\ task_evals = EmptyDict /\ faults = 0
    /\ FetchLocalsInit /\ ExecLocalsInit /\ HistInit

\* pay = extract_pay(title + ' ' + description)
Pay_Extract ==
    /\ pc = "pay_call"
    /\ pay_result' = extract_pay(pay_text)
    /\ pc' = "pay_done"
    /\ UNCHANGED <<storeVars, fetchVars, execVars, histVars, traceVars, g_json,
                   g_attempt, g_log, g_ret, pay_text>>

NextPay == Pay_Extract

InitPay ==
    /\ PipelinesIdle /\ GeminiIdle
    /\ pay_text \in PayTexts
    /\ pay_result = NoPay
    /\ pc = "pay_call"

SpecPay == InitPay /\ [][NextPay]_vars

(***************************************************************************)
(* gemini(prompt, model, expect_json) on its own: one action per HTTP       *)
(* attempt.  An answer is status 429, a failure (another error status, a   *)
(* timeout, a body without candidates) or status 200 with a text, which in *)
(* JSON mode is a JSON object, another JSON value or no JSON at all.       *)
(***************************************************************************)
Answer(h, f, j, t) == [http |-> h, form |-> f, json |-> j, text |-> t]

GeminiObjects == { EmptyDict, [verdict |-> "accept"], [quality_score |-> 75],
                   [is_real_task |-> TRUE], [format |-> "markdown"] }

GeminiAnswers(expect_json) ==
    { Answer("429", "", EmptyDict, NoText), Answer("error", "", EmptyDict, NoText) }
    \cup IF expect_json
         THEN { Answer("200", "object", d, NoText) : d \in GeminiObjects }
              \cup { Answer("200", "nonobject", EmptyDict, NoText),
                     Answer("200", "invalid", EmptyDict, NoText) }
         ELSE { Answer("200", "text", EmptyDict, t) : t \in Texts }

Attempted(h, secs) == [http |-> h, slept |-> secs]

\* one iteration of `for attempt in range(3)`
Gemini_Attempt ==
    /\ pc = "gemini_attempt"
    /\ \E ans \in GeminiAnswers(g_json) :
        LET last == ~(g_attempt + 1 < GEMINI_ATTEMPTS)
        IN  CASE ans.http = "429" ->
                   \* sleep 30 * (attempt + 1), continue; after the last
                   \* iteration the function ends without a return statement
                   /\ g_log' = Append(g_log,
                                  Attempted("429", RATE_LIMIT_WAIT * (g_attempt + 1)))
                   /\ IF last
                      THEN /\ g_ret' = [kind |-> "none"]
                           /\ pc' = "gemini_done"
                           /\ g_attempt' = g_attempt
                      ELSE /\ g_attempt' = g_attempt + 1
                           /\ UNCHANGED <<g_ret, pc>>
              [] ans.http = "error" ->
                   \* except Exception: raise on the last attempt, else sleep 5
                   IF last
                   THEN /\ g_log' = Append(g_log, Attempted("error", 0))
                        /\ g_ret' = [kind |-> "raise"]
                        /\ pc' = "gemini_done"
                        /\ g_attempt' = g_attempt
                   ELSE /\ g_log' = Append(g_log, Attempted("error", ERROR_WAIT))
                        /\ g_attempt' = g_attempt + 1
                        /\ UNCHANGED <<g_ret, pc>>
              [] OTHER ->
                   \* status 200: return the text or json.loads of it; a text
                   \* that is no JSON raises ValueError at once
                   /\ g_log' = Append(g_log, Attempted("200", 0))
                   /\ g_ret' = CASE ans.form = "text"      -> [kind |-> "value", text |-> ans.text]
                                  [] ans.form = "object"    -> [kind |-> "value", json |-> ans.json]
                                  [] ans.form = "nonobject" -> [kind |-> "nondict"]
                                  [] OTHER                  -> [kind |-> "raise"]
                   /\ pc' = "gemini_done"
                   /\ g_attempt' = g_attempt
    /\ UNCHANGED <<storeVars, fetchVars, execVars, histVars, traceVars, g_json,
                   pay_text, pay_result>>

NextGemini == Gemini_Attempt

InitGemini ==
    /\ PipelinesIdle /\ PayIdle
    /\ g_json \in BOOLEAN
    /\ g_attempt = 0
    /\ g_log = <<>>
    /\ g_ret = NoResponse
    /\ pc = "gemini_attempt"

SpecGemini == InitGemini /\ [][NextGemini]_vars

\* a whole run: run_fetch_pipeline(), then run_execution_pipeline()
Next == NextFetch \/ NextExec

Spec == Init /\ [][Next]_vars

\* a whole run in which the Record Store answers every call, on a store of
\* approved and finished tasks, two of them approved at most: several
\* candidates and two tasks are processed one after the other
InitOrder ==
    /\ tasks \in Stores({ "approved", "done" })
    /\ Cardinality({ k \in DOMAIN tasks : IsApproved(tasks[k]) }) <= 2
    /\ task_evals = [k \in DOMAIN tasks |-> StoredEval]
    /\ faults = MaxStoreFaults
    /\ FetchLocalsInit /\ ExecLocalsInit /\ HistInit
    /\ GeminiIdle /\ PayIdle
    /\ pc = "fetch_load"

SpecOrder == InitOrder /\ [][Next]_vars

\* a whole run, Record Store faults included, on a store that holds at most
\* one task, which the dashboard has approved
InitRun ==
    /\ StoreInit({ "approved" })
    /\ Cardinality(DOMAIN tasks) <= 1
    /\ FetchLocalsInit /\ ExecLocalsInit /\ HistInit
    /\ GeminiIdle /\ PayIdle
    /\ pc = "fetch_load"

SpecRun == InitRun /\ [][Next]_vars

(***************************************************************************)
(* Properties of fulfillment (run_execution_pipeline), under SpecExec      *)
(***************************************************************************)
\* the task of this run: approved when the run loaded the store
PickedUp(k) == Get(tasks_at_start[k], "status", "") = "approved"

\* the entries of the current task's history made by one stage
Calls(stage) == { i \in DOMAIN item_log : item_log[i].stage = stage }

FinalWrites == { "patch_done", "patch_done_flagged" }

StageNames == { "planner", "executor", "critic", "improver" }

StagePcs == { "exec_planner", "exec_executor", "exec_critic", "exec_improver",
              "exec_recheck" }

\* C1: a task the run finalized is stored as done exactly when the quality
\* score stored with it is at least 75, and as done_flagged exactly when that
\* score is below 75
C1_StatusFollowsScore ==
    \A k \in DOMAIN tasks :
        (PickedUp(k) /\ tasks[k].status \in { "done", "done_flagged" }) =>
            /\ "qualityScore" \in DOMAIN tasks[k]
            /\ (tasks[k].status = "done") <=> (tasks[k].qualityScore >= 75)
            /\ (tasks[k].status = "done_flagged") <=> (tasks[k].qualityScore < 75)

\* a task finalized as done with the score exactly at the threshold
C1_Witness ==
    \E k \in DOMAIN tasks :
        /\ PickedUp(k)
        /\ tasks[k].status = "done"
        /\ Get(tasks[k], "qualityScore", 0) = 75
        /\ Did("patch_done", "ok") \in { item_log[i] : i \in DOMAIN item_log }

\* C2: per task the Improver is called at most once and the Critic at most
\* twice; when the re-review rejects, the next write is the finalization as
\* done_flagged for a score below 75, with no further improve/review cycle
C2_OneImprovementCycle ==
    /\ Cardinality(Calls("improver")) <= 1
    /\ Cardinality(Calls("critic")) <= 2
    /\ (Cardinality(Calls("critic")) = 2 /\ pc = "exec_finalize") =>
           Cardinality(Calls("improver")) = 1
    /\ \A i \in DOMAIN item_log :
           (item_log[i].stage \in FinalWrites /\ Cardinality(Calls("critic")) = 2
              /\ score < 75) =>
               /\ item_log[i].stage = "patch_done_flagged"
               /\ \A j \in DOMAIN item_log : j > i => item_log[j].stage \notin StageNames
               /\ (item_log[i].verdict = "ok" /\ i = Len(item_log)) =>
                      tasks[Key].status = "done_flagged"

\* the re-review rejected the improved text and the task is stored as
\* done_flagged after one Improver call and two Critic calls
C2_Witness ==
    /\ pc = "exec_log_done"
    /\ Cardinality(Calls("improver")) = 1
    /\ Cardinality(Calls("critic")) = 2
    /\ item_log[Len(item_log) - 1] = Did("critic", "rejected")
    /\ item_log[Len(item_log)] = Did("patch_done_flagged", "ok")
    /\ tasks[Key].status = "done_flagged"

\* C3: an Executor text of fewer than 150 characters after stripping is a
\* failed attempt, and no task is finalized as done or done_flagged with a
\* stored output of fewer than 150 characters
C3_NoShortOutput ==
    /\ (pc = "exec_log_executor" /\ gen_resp.kind = "value"
          /\ gen_resp.text.core < 150) =>
           /\ ~exec_result.approved
           /\ item_log[Len(item_log)] = Did("executor", "failed")
    /\ \A k \in DOMAIN tasks :
           (PickedUp(k) /\ tasks[k].status \in { "done", "done_flagged" }) =>
               /\ "output" \in DOMAIN tasks[k]
               /\ tasks[k].output.core >= 150
               /\ TextLen(tasks[k].output) >= 150

\* an Executor attempt failed on a text of 150 characters of which 149 remain
\* after stripping
C3_Witness ==
    /\ pc = "exec_log_executor"
    /\ gen_resp = [kind |-> "value", text |-> Text(1, 149, 0)]
    /\ ~exec_result.approved
    /\ item_log[Len(item_log)] = Did("executor", "failed")

\* C7: the Critic approves exactly when the payload it returns holds a
\* quality score of at least 75 and a true ready_to_send flag, in the first
\* review and in the re-review, the degraded path included
CriticRule(r) ==
    r.approved <=> /\ "quality_score" \in DOMAIN r.data
                   /\ r.data.quality_score >= 75
                   /\ "ready_to_send" \in DOMAIN r.data
                   /\ r.data.ready_to_send

C7_CriticApproval ==
    /\ pc = "exec_log_critic" => CriticRule(critic_result)
    /\ pc = "exec_log_improved" => CriticRule(recheck)

\* the review call failed and the Critic approved with the default payload
C7_Witness ==
    /\ pc = "exec_log_critic"
    /\ gen_resp.kind \in { "raise", "none", "nondict" }
    /\ critic_result.approved
    /\ critic_result.data.quality_score = 75
    /\ critic_result.data.ready_to_send

\* C11: when the first review rejects and the Improver runs, the score that
\* fulfillment keeps for the finalization is the score of the second review
\* (0 when its payload holds none, as the Critic reads it), and the status
\* and the quality score then written follow from that score alone
C11_SecondReviewDecides ==
    [][ /\ (pc = "exec_log_improved" /\ pc' = "exec_finalize") =>
               score' = Get(recheck.data, "quality_score", 0)
        /\ (pc = "exec_finalize" /\ pc' = "exec_log_done" /\ tasks' # tasks) =>
               /\ tasks'[Key].qualityScore = score
               /\ (tasks'[Key].status = "done") <=> (score >= 75)
      ]_vars

\* C12: the Executor is called at most 3 times per task; the task fails for
\* want of a deliverable exactly after 3 failed attempts, and then neither
\* the Critic nor the Improver is called, no finalization as done or
\* done_flagged is written, and the write of error carries a message
FailedAttempts == { i \in DOMAIN item_log : item_log[i] = Did("executor", "failed") }

C12_ExecutorExhausted ==
    /\ Cardinality(Calls("executor")) <= 3
    /\ (pc = "exec_except" /\ err = "executor_failed") =>
           Cardinality(FailedAttempts) = 3
    /\ (Cardinality(FailedAttempts) = 3 /\ pc # "crashed") =>
           pc \in { "exec_log_executor", "exec_except", "exec_log_error" }
    /\ Cardinality(FailedAttempts) = 3 =>
           /\ Calls("critic") = {} /\ Calls("improver") = {}
           /\ \A i \in DOMAIN item_log : item_log[i].stage \notin FinalWrites
           /\ tasks[Key].status \notin { "done", "done_flagged" }
           /\ Did("patch_error", "ok") \in { item_log[i] : i \in DOMAIN item_log } =>
                  /\ tasks[Key].status = "error"
                  /\ "error" \in DOMAIN tasks[Key]
                  /\ tasks[Key].error.what \in { "executor_failed", "store_error" }

\* three failed attempts, and the task is stored as error with the message
\* of the exhausted Executor
C12_Witness ==
    /\ pc = "exec_log_error"
    /\ Cardinality(FailedAttempts) = 3
    /\ tasks[Key].status = "error"
    /\ tasks[Key].error = Message("executor_failed", 32)

\* C13: the stored audit log of a task only grows: every step of the run
\* leaves the log it found as a prefix of the log it leaves
StoredLog(store, k) == Get(store[k], "agent_log", <<>>)

IsPrefix(old, new) ==
    /\ Len(old) <= Len(new)
    /\ \A i \in DOMAIN old : new[i] = old[i]

C13_LogAppendOnly ==
    [][ \A k \in DOMAIN tasks :
            k \in DOMAIN tasks' /\ IsPrefix(StoredLog(tasks, k), StoredLog(tasks', k))
      ]_vars

\* C17: a failed Generator call of the Planner gives an approved outcome with
\* an empty blueprint and the Executor is called next; a failed Generator
\* call of the Critic gives an approved outcome with score 75, after which
\* the task is finalized as done; the error handler is entered only for a
\* Record Store exception, an exhausted Executor or a blueprint that is no
\* object, never for a failed Planner or Critic call
CallFailed(resp) == resp.kind \in { "raise", "none" }

Approved75(r) ==
    /\ r.approved
    /\ Get(r.data, "quality_score", 0) = 75
    /\ Get(r.data, "ready_to_send", FALSE)

StoreRaised == pc' = "exec_except" /\ err' = "store_error"

C17_DegradedContinue ==
    [][ /\ (pc = "exec_planner" /\ CallFailed(gen_resp')) =>
               /\ plan_result'.approved /\ plan_result'.data = EmptyDict
               /\ pc' = "exec_log_planner"
        /\ (pc = "exec_log_planner" /\ plan_result.data = EmptyDict) =>
               pc' = "exec_executor" \/ StoreRaised
        /\ (pc = "exec_executor" /\ plan_result.data = EmptyDict) =>
               pc' = "exec_log_executor"
        /\ (pc \in { "exec_critic", "exec_recheck" } /\ CallFailed(gen_resp')) =>
               Approved75(IF pc = "exec_critic" THEN critic_result' ELSE recheck')
        /\ (pc = "exec_log_critic" /\ Approved75(critic_result)) =>
               (pc' = "exec_finalize" /\ score' = 75) \/ StoreRaised
        /\ (pc = "exec_log_improved" /\ Approved75(recheck)) =>
               (pc' = "exec_finalize" /\ score' = 75) \/ StoreRaised
        /\ (pc = "exec_finalize" /\ score = 75 /\ tasks' # tasks) =>
               tasks'[Key].status = "done"
        /\ (pc # "exec_except" /\ pc' = "exec_except") =>
               \/ err' \in { "store_error", "executor_failed" }
               \/ err' = "attribute_error" /\ ~IsDict(plan_result.data)
      ]_vars

\* the Planner's call failed and the Executor has delivered on the empty
\* blueprint
C17_Witness ==
    /\ pc = "exec_log_executor"
    /\ plan_result = Outcome(TRUE, EmptyDict, "planner_degraded")
    /\ exec_result.approved

\* C18: when the run has ended, no task that fulfillment picked up is stored
\* as executing: each has one of the terminal statuses
C18_NoneStranded ==
    pc \in { "exit", "crashed" } =>
        \A k \in DOMAIN tasks :
            (PickedUp(k) /\ tasks[k].status # "approved") =>
                tasks[k].status \in { "done", "done_flagged", "error" }

\* C21: the diagnostic message stored with status error in the record of a
\* task this run aborted is no longer than the bound the handler cuts the
\* message to, whatever the length of the exception's text
C21_ErrorTruncated ==
    \A k \in DOMAIN tasks :
        (PickedUp(k) /\ tasks[k].status = "error" /\ "error" \in DOMAIN tasks[k]) =>
            tasks[k].error.len <= ERROR_DETAIL_MAX

\* C23: when the Improver's Generator call fails or returns a text of fewer
\* than 150 characters, the output stays the Executor's output; the text
\* handed to the re-review is the output as the Improver step left it, it is
\* not changed afterwards, the final write stores it, and it never has fewer
\* than 150 characters
ShortText(resp) == resp.kind = "value" /\ TextLen(resp.text) < 150

C23_FallbackKeepsOriginal ==
    [][ /\ pc = "exec_improver" =>
               /\ (CallFailed(gen_resp') \/ ShortText(gen_resp')) => output' = output
               /\ TextLen(output') >= 150
        /\ pc = "exec_recheck" => reviewed' = output /\ output' = output
        /\ pc = "exec_log_improved" => output' = output
        /\ (pc = "exec_finalize" /\ pc' = "exec_log_done" /\ tasks' # tasks) =>
               tasks'[Key].output = output
      ]_vars

\* the Improver's call failed, the re-review read the Executor's output and
\* the final write stored it
C23_Witness ==
    /\ pc = "exec_log_done"
    /\ \E i \in DOMAIN item_log : item_log[i] = Did("improver", "improver_failed")
    /\ item_log[Len(item_log)].stage \in FinalWrites
    /\ item_log[Len(item_log)].verdict = "ok"
    /\ tasks[Key].output = output
    /\ TextLen(output) >= 150

\* C24: the Improver is called for a task only when the quality score of the
\* task's first review is below 75
C24_ImproverBelowThreshold ==
    pc = "exec_improver" => score < 75

\* C9: once a write of done or done_flagged has been applied to a task, no
\* later write of the run changes the task's status
C9_TerminalIsFinal ==
    \A i, j \in DOMAIN item_log :
        (i < j /\ item_log[i].stage \in FinalWrites /\ item_log[i].verdict = "ok") =>
            ~(item_log[j] = Did("patch_error", "ok") /\ tasks[Key].status = "error")

\* C10: stages run only for tasks that were approved when the run loaded the
\* store, every other task is left as it was, the write of executing is
\* issued before the first stage of a task, and when the Record Store applied
\* it the task is executing whenever one of its stages is called
C10_OnlyApprovedExecuted ==
    /\ \A k \in staged : k \in DOMAIN tasks_at_start /\ PickedUp(k)
    /\ \A k \in DOMAIN tasks_at_start : ~PickedUp(k) => tasks[k] = tasks_at_start[k]
    /\ \A i \in DOMAIN item_log :
           item_log[i].stage \in StageNames =>
               i > 1 /\ item_log[1].stage = "patch_executing"
    /\ pc \in StagePcs =>
           /\ item_log # <<>> /\ item_log[1].stage = "patch_executing"
           /\ item_log[1].verdict = "ok" => tasks[Key].status = "executing"

\* the Planner is about to be called for a task that was approved and is now
\* stored as executing, while another task of the store is left alone
C10_Witness ==
    /\ pc = "exec_planner"
    /\ PickedUp(Key)
    /\ tasks[Key].status = "executing"
    /\ item_log = << Did("patch_executing", "ok") >>
    /\ \E k \in DOMAIN tasks : ~PickedUp(k) /\ tasks[k].status = "executing"

(***************************************************************************)
(* Properties of intake (run_fetch_pipeline), under SpecFetch              *)
(***************************************************************************)
AllRetryable ==
    \A i \in DOMAIN item_log : item_log[i] = Did("scout", "retryable")

\* C4: after a Scout rejection with reason job_listing, self_promotion,
\* in_person or scam the Scout is not called again for the candidate, no
\* other stage is called for it, and the candidate is rejected
C4_DefinitiveStops ==
    /\ \A i \in DOMAIN item_log :
           item_log[i] = Did("scout", "definitive") =>
               /\ i = Len(item_log)
               /\ pc = "fetch_scout_rejected"
               /\ ~scout_result.approved
    /\ (pc = "fetch_scout_rejected"
          /\ scout_result.reason \in { "job_listing", "self_promotion",
                                       "in_person", "scam" }) =>
           item_log[Len(item_log)] = Did("scout", "definitive")

\* a scam rejection on the second attempt ended the candidate's Scout loop
C4_Witness ==
    /\ pc = "fetch_scout_rejected"
    /\ item_log = << Did("scout", "retryable"), Did("scout", "definitive") >>
    /\ scout_result.reason = "scam"

\* C5: the Scout is never called more than 3 times for a candidate, and a
\* candidate whose rejections are all non-definitive is rejected after
\* exactly 3 calls
C5_ThreeAttempts ==
    /\ Cardinality(Calls("scout")) <= 3
    /\ (AllRetryable /\ pc = "fetch_scout_rejected") => Len(item_log) = 3
    /\ (AllRetryable /\ Len(item_log) = 3) =>
           pc = "fetch_scout_rejected" /\ ~scout_result.approved
    /\ (AllRetryable /\ item_log # <<>> /\ Len(item_log) < 3) => pc = "fetch_scout"

\* three vague rejections in a row, and the candidate is rejected
C5_Witness ==
    /\ pc = "fetch_scout_rejected"
    /\ item_log = << Did("scout", "retryable"), Did("scout", "retryable"),
                     Did("scout", "retryable") >>
    /\ scout_result.reason = "vague"

\* C6: the Evaluator approves exactly when the Generator's response holds
\* the verdict accept and a confidence of at least 70
C6_EvaluatorApproval ==
    pc = "fetch_evaluated" =>
        (eval_result.approved <=>
            /\ gen_resp.kind = "value"
            /\ Get(gen_resp.json, "verdict", "") = "accept"
            /\ "overall_confidence" \in DOMAIN gen_resp.json
            /\ gen_resp.json.overall_confidence # NonNumeric
            /\ gen_resp.json.overall_confidence >= 70)

\* an acceptance exactly at the threshold
C6_Witness ==
    /\ pc = "fetch_evaluated"
    /\ gen_resp = [kind |-> "value",
                   json |-> [verdict |-> "accept", overall_confidence |-> 70]]
    /\ eval_result.approved

\* C14: the step that disposes of a candidate the Scout rejected writes
\* nothing to the Record Store, accepts nothing, and adds one to exactly one
\* of the rejection buckets job_listing, in_person and scam_vague, which is
\* job_listing when the reason is job_listing or self_promotion
RejectionBuckets == { "job_listing", "in_person", "scam_vague" }

C14_OneBucketPerRejection ==
    [][ pc = "fetch_scout_rejected" =>
          /\ tasks' = tasks /\ task_evals' = task_evals
          /\ accepted_tasks' = accepted_tasks
          /\ \E b \in RejectionBuckets :
                 /\ stats' = [stats EXCEPT ![b] = @ + 1]
                 /\ scout_result.reason \in { "job_listing", "self_promotion" } =>
                        b = "job_listing"
      ]_vars

\* C22: when the Scout call made last for a candidate was its second or
\* third attempt, the critique passed to it was not empty
C22_RetryCarriesCritique ==
    (Len(item_log) >= 2 /\ item_log[Len(item_log)].stage = "scout") =>
        critique # ""

\* C25: when intake reports its statistics, total_raw is the sum of the four
\* rejection buckets and accepted, and accepted is the number of distinct
\* task records intake has written in this run
C25_StatsConserved ==
    pc = "fetch_report" =>
        /\ stats.total_raw = stats.job_listing + stats.scam_vague + stats.in_person
                                + stats.low_confidence + stats.accepted
        /\ stats.accepted = Cardinality(pushed)

\* C8: of a candidate whose id is a key of the Record Store when the run
\* starts, no stage is called and no write is issued
C8_ExistingUntouched ==
    \A id \in DOMAIN tasks_at_start :
        id \notin touched /\ tasks[id] = tasks_at_start[id]

(***************************************************************************)
(* Properties of extract_pay, under SpecPay                                *)
(***************************************************************************)
\* the amount a reader takes the token for, in cents
RECURSIVE Whole(_, _)
Whole(h, g) == IF g = <<>> THEN h ELSE Whole(h * 1000 + Head(g), Tail(g))

Written(a) == Whole(a.head, a.groups) * 100 + a.cents

\* the amounts of the text as written that lie strictly between 0 and the
\* cap of 5000 dollars, in cents
InRange(text) ==
    { v \in { Written(text.amounts[i]) : i \in DOMAIN text.amounts } :
        0 < v /\ v < 500000 }

\* C15: for the text that holds only the amount $500 with the phrasing
\* "/month", extract_pay yields no value
C15_SlashMonthExcluded ==
    (pc = "pay_done"
       /\ pay_text = [phrasing |-> "/month", amounts |-> << Amount(500, <<>>, 0) >>])
        => ~pay_result.found

\* C16: for a text without salary phrasing extract_pay yields no value when
\* no amount lies strictly between 0 and 5000, and otherwise the largest
\* amount in that range, to the whole dollar
C16_MaxUnderCap ==
    (pc = "pay_done" /\ pay_text.phrasing = "") =>
        IF InRange(pay_text) = {}
        THEN ~pay_result.found
        ELSE /\ pay_result.found
             /\ pay_result.dollars * 100 - Max(InRange(pay_text)) < 100
             /\ Max(InRange(pay_text)) - pay_result.dollars * 100 < 100

(***************************************************************************)
(* Properties of a whole run, under SpecOrder                              *)
(***************************************************************************)
\* the stage calls of the current candidate / task, in call order
StageCalls ==
    SelectSeq(item_log, LAMBDA e : e.stage \in StageNames \cup { "scout", "evaluator" })

\* which stage call may follow which, and on what outcome of the earlier one
MayFollow(a, b) ==
    \/ a.stage = "scout" /\ b.stage = "scout" /\ a.verdict = "retryable"
    \/ a.stage = "scout" /\ b.stage = "evaluator" /\ a.verdict = "approved"
    \/ a.stage = "planner" /\ b.stage = "executor"
    \/ a.stage = "executor" /\ b.stage = "executor" /\ a.verdict = "failed"
    \/ a.stage = "executor" /\ b.stage = "critic" /\ a.verdict = "approved"
    \/ a.stage = "critic" /\ b.stage = "improver" /\ a.verdict = "rejected"
    \/ a.stage = "improver" /\ b.stage = "critic"

\* C19: for each candidate the Scout calls come first and the Evaluator is
\* called at most once, directly after the Scout approved; for each task the
\* calls are Planner, Executor attempts, Critic, then at most one Improver
\* call followed by a Critic call; the stages of a task are called only while
\* every task handled before it has a terminal status
C19_StageOrder ==
    LET calls == StageCalls
    IN  /\ calls # <<>> => calls[1].stage \in { "scout", "planner" }
        /\ \A i \in DOMAIN calls : i > 1 => MayFollow(calls[i - 1], calls[i])
        /\ Cardinality(Calls("evaluator")) <= 1
        /\ Cardinality(Calls("planner")) <= 1
        /\ Cardinality(Calls("improver")) <= 1
        /\ pc = "fetch_evaluator" =>
               item_log[Len(item_log)] = Did("scout", "approved")
        /\ pc \in StagePcs =>
               \A k \in staged \ { Key } :
                   tasks[k].status \in { "done", "done_flagged", "error" }

\* the second task of a run has gone through Planner, Executor, Critic,
\* Improver and the re-review after the first task was finalized
C19_Witness ==
    /\ pc = "exec_log_improved"
    /\ cur = 2
    /\ staged = { approved[1], approved[2] }
    /\ tasks[approved[1]].status \in { "done", "done_flagged" }
    /\ Len(StageCalls) = 5
    /\ StageCalls[4].stage = "improver"

(***************************************************************************)
(* Properties of gemini, under SpecGemini                                  *)
(***************************************************************************)
AllRateLimited == \A i \in DOMAIN g_log : g_log[i].http = "429"

\* C20: a gemini call makes at most 3 HTTP attempts, an attempt is made again
\* only after a failed one, a rate-limited attempt k is followed by a wait of
\* 30 * k seconds, and a call whose 3 attempts were all rate-limited ends
\* with an exception
C20_RateLimitSurfaces ==
    /\ Len(g_log) <= 3
    /\ \A i \in DOMAIN g_log :
           /\ g_log[i].http = "429" => g_log[i].slept = 30 * i
           /\ i < Len(g_log) => g_log[i].http \in { "429", "error" }
    /\ (AllRateLimited /\ Len(g_log) < 3) => pc = "gemini_attempt"
    /\ (AllRateLimited /\ Len(g_log) = 3) =>
           pc = "gemini_done" /\ g_ret.kind = "raise"

(***************************************************************************)
(* Properties of a whole run (SpecRun)                                     *)
(***************************************************************************)
\* C26: a candidate joins the accepted tasks only when Scout and the
\* Evaluator have both approved it, and with status inbox; intake writes
\* task records of accepted candidates only; a record intake has written
\* keeps status inbox to the end of the run; and every task fulfillment runs
\* a stage on was stored as approved when fulfillment started and was not
\* written by this run's intake
C26_IntakeNotExecuted ==
    [][ /\ accepted_tasks' \notin { accepted_tasks, <<>> } =>
               /\ scout_result.approved /\ eval_result.approved
               /\ Len(accepted_tasks') = Len(accepted_tasks) + 1
               /\ accepted_tasks'[Len(accepted_tasks')].id = new_raw[item_i]
               /\ accepted_tasks'[Len(accepted_tasks')].task.status = "inbox"
        /\ pushed' # pushed =>
               /\ pushed' = pushed \cup { accepted_tasks[push_i].id }
               /\ tasks'[accepted_tasks[push_i].id] = accepted_tasks[push_i].task
        /\ \A k \in pushed' : tasks'[k].status = "inbox"
        /\ \A k \in staged' :
               /\ k \notin pushed'
               /\ Get(tasks_at_start'[k], "status", "") = "approved"
      ]_vars

\* the run has ended: intake wrote a record, fulfillment executed another
\* task, and the record intake wrote is still in the inbox
C26_Witness ==
    /\ pc = "exit"
    /\ pushed # {} /\ staged # {}
    /\ \A k \in pushed : tasks[k].status = "inbox" /\ k \notin staged

====
